---- MODULE Spec2Model ----
(***************************************************************************)
(* The goal-refinement pipeline of AIGoalCoach: GeminiService.refineGoal,  *)
(* its retrying gateway, response parsing, the zod goalSchema, the         *)
(* confidence guardrail and TelemetryService.logAICall.                    *)
(*                                                                         *)
(* JavaScript runs each handler to its next await without interruption,    *)
(* so every action below is the code between two awaits.                   *)
(***************************************************************************)
EXTENDS Integers, Sequences, FiniteSets, TLC

(***************************************************************************)
(* Bounds of the model.                                                    *)
(***************************************************************************)
MaxCalls == 1
MaxEnvChanges == 1
NumProcs == 2
MaxFailed == 1
MaxOverlap == 2

(***************************************************************************)
(* Program constants.                                                      *)
(***************************************************************************)
maxRetries_four == 3 + 1
maxRetries == 3
BackoffMs == 4000
GuardrailThreshold == 4
PromptTemplateLen == 675

Procs == 1..NumProcs

(***************************************************************************)
(* JavaScript values.  A string is the sequence of its characters, a       *)
(* number n (+ 1/2 when half) keeps integers and non-integers apart.       *)
(***************************************************************************)
Undef == [t |-> "undefined"]
Null == [t |-> "null"]
Str(s) == [t |-> "string", s |-> s]
Num(n) == [t |-> "number", n |-> n, half |-> FALSE]
NumHalf(n) == [t |-> "number", n |-> n, half |-> TRUE]
Arr(a) == [t |-> "array", a |-> a]
Obj(g, k, c, x) ==
  [t |-> "object", refined_goal |-> g, key_results |-> k,
   confidence_score |-> c, extra |-> x]

IsWhitespace(ch) == ch \in {" ", "\n"}

\* String.prototype.trim
RECURSIVE TrimLeft(_)
TrimLeft(s) ==
  IF s # <<>> /\ IsWhitespace(Head(s)) THEN TrimLeft(Tail(s)) ELSE s

RECURSIVE TrimRight(_)
TrimRight(s) ==
  IF s # <<>> /\ IsWhitespace(s[Len(s)])
    THEN TrimRight(SubSeq(s, 1, Len(s) - 1))
    ELSE s

trim(s) == TrimRight(TrimLeft(s))

\* JavaScript truthiness of a value
Truthy(v) ==
  CASE v.t = "undefined" -> FALSE
    [] v.t = "null" -> FALSE
    [] v.t = "string" -> v.s # <<>>
    [] v.t = "number" -> v.n # 0 \/ v.half
    [] OTHER -> TRUE

(***************************************************************************)
(* Errors: the message is a sequence of text fragments; a ZodError also    *)
(* carries its issues.                                                     *)
(***************************************************************************)
Error(msg) == [message |-> msg, issues |-> {}]
NoError == [message |-> <<>>, issues |-> {}]

Issue(field, idx, msg) == [field |-> field, idx |-> idx, msg |-> msg]

(***************************************************************************)
(* goalSchema (zod): every failed check adds an issue; parse throws when   *)
(* there is any issue, and otherwise returns the object stripped of        *)
(* unknown keys.                                                           *)
(***************************************************************************)
refinedGoalIssues(v) ==
  CASE v.t = "undefined" -> {Issue("refined_goal", -1, "Required")}
    [] v.t # "string" -> {Issue("refined_goal", -1, "Expected string")}
    [] OTHER ->
         IF Len(v.s) < 1
           THEN {Issue("refined_goal", -1, "refined_goal must be a non-empty string")}
           ELSE {}

keyResultIssues(v) ==
  CASE v.t = "undefined" -> {Issue("key_results", -1, "Required")}
    [] v.t # "array" -> {Issue("key_results", -1, "Expected array")}
    [] OTHER ->
         (IF Len(v.a) < 3
            THEN {Issue("key_results", -1, "key_results must have at least 3 items")}
            ELSE {})
         \cup
         (IF Len(v.a) > 5
            THEN {Issue("key_results", -1, "key_results must have at most 5 items")}
            ELSE {})
         \cup
         {Issue("key_results", i, "Expected string") :
            i \in {j \in 1..Len(v.a) : v.a[j].t # "string"}}
         \cup
         {Issue("key_results", i, "Each key result must be a non-empty string") :
            i \in {j \in 1..Len(v.a) : v.a[j].t = "string" /\ Len(v.a[j].s) < 1}}

\* confidence_score without the int() check
confidenceScoreIssues_noInt(v) ==
  CASE v.t = "undefined" -> {Issue("confidence_score", -1, "Required")}
    [] v.t # "number" -> {Issue("confidence_score", -1, "Expected number")}
    [] OTHER ->
         (IF v.n < 1
            THEN {Issue("confidence_score", -1, "confidence_score must be at least 1")}
            ELSE {})
         \cup
         (IF v.n > 10 \/ (v.n = 10 /\ v.half)
            THEN {Issue("confidence_score", -1, "confidence_score must be at most 10")}
            ELSE {})

\* n (+ 1/2) >= 1 and n (+ 1/2) <= 10 over the integers
confidenceScoreIssues(v) ==
  CASE v.t = "undefined" -> {Issue("confidence_score", -1, "Required")}
    [] v.t # "number" -> {Issue("confidence_score", -1, "Expected number")}
    [] OTHER ->
         (IF v.half
            THEN {Issue("confidence_score", -1, "Expected integer, received float")}
            ELSE {})
         \cup
         (IF v.n < 1
            THEN {Issue("confidence_score", -1, "confidence_score must be at least 1")}
            ELSE {})
         \cup
         (IF v.n > 10 \/ (v.n = 10 /\ v.half)
            THEN {Issue("confidence_score", -1, "confidence_score must be at most 10")}
            ELSE {})

\* a validator that stops at the first field with an issue
goalSchemaIssues_firstField(v) ==
  IF v.t # "object"
    THEN {Issue("", -1, "Expected object")}
    ELSE IF refinedGoalIssues(v.refined_goal) # {}
      THEN refinedGoalIssues(v.refined_goal)
      ELSE IF keyResultIssues(v.key_results) # {}
        THEN keyResultIssues(v.key_results)
        ELSE confidenceScoreIssues(v.confidence_score)

goalSchemaIssues(v) ==
  IF v.t # "object"
    THEN {Issue("", -1, "Expected object")}
    ELSE refinedGoalIssues(v.refined_goal)
           \cup keyResultIssues(v.key_results)
           \cup confidenceScoreIssues(v.confidence_score)

\* goalSchema.parse: [ok, value, error]
goalSchemaParse(v) ==
  LET issues == goalSchemaIssues(v) IN
    IF issues = {}
      THEN [ok |-> TRUE, value |-> [v EXCEPT !.extra = FALSE], error |-> NoError]
      ELSE [ok |-> FALSE, value |-> Undef,
            error |-> [message |-> <<"ZodError">>, issues |-> issues]]

(***************************************************************************)
(* parseResponse.  The text payload is a sequence of tokens: a code fence, *)
(* the tag json, whitespace, a complete JSON text (carrying the value it   *)
(* decodes to) or other text.                                              *)
(***************************************************************************)
Fence == [tok |-> "fence"]
JsonTag == [tok |-> "json"]
Ws == [tok |-> " "]
Garbage == [tok |-> "text"]
Json(v) == [tok |-> "JSON", v |-> v]
\* A JSON text split inside one of its string literals: JsonOpen(v), the
\* characters of the string, JsonClose; it decodes to v.
JsonOpen(v) == [tok |-> "JSON<", v |-> v]
JsonClose == [tok |-> "JSON>"]

IsWsTok(k) == k.tok = " "

RECURSIVE TrimLeftTok(_)
TrimLeftTok(s) ==
  IF s # <<>> /\ IsWsTok(Head(s)) THEN TrimLeftTok(Tail(s)) ELSE s

RECURSIVE TrimRightTok(_)
TrimRightTok(s) ==
  IF s # <<>> /\ IsWsTok(s[Len(s)])
    THEN TrimRightTok(SubSeq(s, 1, Len(s) - 1))
    ELSE s

FencePositions(text) == {i \in 1..Len(text) : text[i].tok = "fence"}

Min(S) == CHOOSE x \in S : \A y \in S : x <= y

\* textContent.match of the fenced-block pattern: the capture group of the
\* leftmost match, between the first fence and the next one, without the
\* optional json tag and the surrounding whitespace.
jsonMatch(text) ==
  LET fences == FencePositions(text) IN
    IF Cardinality(fences) < 2
      THEN [matched |-> FALSE, group |-> <<>>]
      ELSE LET open == Min(fences)
               close == Min(fences \ {open})
               body == SubSeq(text, open + 1, close - 1)
               untagged == IF body # <<>> /\ Head(body).tok = "json"
                             THEN Tail(body) ELSE body
           IN [matched |-> TRUE, group |-> TrimRightTok(TrimLeftTok(untagged))]

\* JSON.parse: exactly one complete JSON text, whatever its string literals
\* contain
JSONparse(toks) ==
  IF Len(toks) = 1 /\ toks[1].tok = "JSON"
    THEN [ok |-> TRUE, value |-> toks[1].v]
    ELSE IF /\ Len(toks) >= 2
            /\ toks[1].tok = "JSON<"
            /\ toks[Len(toks)].tok = "JSON>"
            /\ \A i \in 2..(Len(toks) - 1) : toks[i].tok \in {"fence", "json", " ", "text"}
      THEN [ok |-> TRUE, value |-> toks[1].v]
      ELSE [ok |-> FALSE, value |-> Undef]

\* apiResponse.candidates?.[0]?.content?.parts?.[0]?.text; an envelope is
\* [hasText |-> FALSE] when the path is missing.
HasText(apiResponse) == apiResponse.hasText /\ apiResponse.text # <<>>

parseResponse(apiResponse) ==
  IF ~HasText(apiResponse)
    THEN [ok |-> FALSE, value |-> Undef,
          error |-> Error(<<"Failed to parse API response: ",
                            "Invalid API response structure">>)]
    ELSE LET m == jsonMatch(apiResponse.text)
             jsonStr == IF m.matched THEN m.group ELSE apiResponse.text
             trimmed == TrimRightTok(TrimLeftTok(jsonStr))
             parsed == JSONparse(trimmed)
         IN IF parsed.ok
              THEN [ok |-> TRUE, value |-> parsed.value, error |-> NoError]
              ELSE [ok |-> FALSE, value |-> Undef,
                    error |-> Error(<<"Failed to parse API response: ",
                                      "SyntaxError">>)]


(***************************************************************************)
(* Telemetry records.                                                      *)
(***************************************************************************)
model == "gemini-2.5-flash"

estimateTokens(len) == (len + 3) \div 4

\* buildPrompt: the template with the verbatim input inside
PromptLen(userInput) == PromptTemplateLen + Len(userInput.s)

Digits(n) == IF n < 10 THEN 1 ELSE 2

RECURSIVE SumLen(_)
SumLen(a) == IF a = <<>> THEN 0 ELSE Len(Head(a).s) + 2 + SumLen(Tail(a))

\* JSON.stringify(validatedResponse).length for a schema-valid goal
StringifyLen(goal) ==
  2 + (15 + Len(goal.refined_goal.s) + 2) + 1
    + (14 + 2 + SumLen(goal.key_results.a) + (Len(goal.key_results.a) - 1)) + 1
    + (19 + Digits(goal.confidence_score.n))

\* TelemetryService.logAICall: the row built from the telemetry data
logEntry(userInput, aiOutput, promptTokens, completionTokens, success, errorMessage) ==
  [model |-> model,
   success |-> success,
   prompt_tokens |-> promptTokens,
   completion_tokens |-> completionTokens,
   total_tokens |-> promptTokens + completionTokens,
   input |-> userInput,
   output |-> aiOutput,
   error_message |-> errorMessage]

NoEntry == logEntry(Undef, Null, 0, 0, FALSE, Null)

SuccessEntry(userInput, validated) ==
  logEntry(userInput, validated, estimateTokens(PromptLen(userInput)),
           estimateTokens(StringifyLen(validated)), TRUE, Null)

\* a failure logged without success: false, so that the default applies
FailureEntry_defaultSuccess(userInput, error) ==
  logEntry(userInput, Null, 0, 0, TRUE, Str(error.message))

FailureEntry(userInput, error) ==
  logEntry(userInput, Null, 0, 0, FALSE, Str(error.message))

Sentinel == Obj(Str(<<"No goal provided">>), Arr(<<>>), Num(0), FALSE)

EmptyEntry == logEntry(Str(<<"EMPTY_INPUT">>), Sentinel, 0, 0, TRUE, Null)

Rejection == [error |-> <<"Input does not appear to be a valid goal.">>]

(***************************************************************************)
(* Errors the pipeline raises.                                             *)
(***************************************************************************)
GatewayError(inner) == Error(<<"Failed to call Gemini API: ">> \o inner)

MissingKeyError == GatewayError(<<"GOOGLE_API_KEY environment variable is not set">>)
TransportError == GatewayError(<<"fetch failed">>)
HttpError(status) == GatewayError(<<"Gemini API error (", status, ")">>)
BodyError == GatewayError(<<"Unexpected end of JSON input">>)
InitError == Error(<<"SUPABASE_API_KEY environment variable is not set. Please add it to your .env file.">>)
InsertError == Error(<<"insert into ai_call_logs failed">>)

(***************************************************************************)
(* What the environment can supply.                                        *)
(***************************************************************************)
g == Str(<<"g">>)
kr == Str(<<"k">>)
Goal(n, score) == Obj(g, Arr([i \in 1..n |-> kr]), score, FALSE)

Objects ==
  { Goal(3, Num(1)), Goal(3, Num(3)), Goal(3, Num(4)), Goal(5, Num(10)),
    Goal(2, Num(8)), Goal(6, Num(8)), Goal(3, Num(0)), Goal(3, Num(11)),
    Goal(3, NumHalf(4)), Goal(2, Num(0)),
    Obj(Str(<<>>), Arr(<<kr, kr, kr>>), Num(7), FALSE),
    Obj(g, Arr(<<kr, Str(<<>>), kr>>), Num(7), FALSE),
    Obj(g, Arr(<<kr, kr, kr>>), Num(7), TRUE),
    Obj(g, Undef, Str(<<"7">>), FALSE),
    Obj(Str(<<>>), Arr(<<kr, Str(<<>>)>>), NumHalf(0), FALSE),
    Null }

Envelope(text) == [hasText |-> TRUE, text |-> text]
NoTextEnvelope == [hasText |-> FALSE, text |-> <<>>]

Responses ==
  {Envelope(<<Json(o)>>) : o \in Objects}
    \cup { Envelope(<<Fence, JsonTag, Ws, Json(Goal(3, Num(9))), Ws, Fence>>),
           Envelope(<<Fence, Json(Goal(3, Num(9))), Fence>>),
           Envelope(<<JsonOpen(Goal(3, Num(9))), Fence, JsonClose>>),
           Envelope(<<Fence, JsonTag, Ws, JsonOpen(Goal(3, Num(9))), Fence,
                      JsonClose, Ws, Fence>>),
           Envelope(<<Garbage>>),
           Envelope(<<>>),
           NoTextEnvelope }

NetOutcomes ==
  {[k |-> "ok", data |-> r] : r \in Responses}
    \cup { [k |-> "transport"], [k |-> "http", status |-> "500"],
           [k |-> "http", status |-> "429"], [k |-> "body"] }

Inputs ==
  { Undef, Num(0), Num(7), Str(<<>>), Str(<<" ">>), Str(<<" ", "\n">>),
    Str(<<"a">>), Str(<<" ", "a", "b">>) }

EnvValues == {"", "k1", "k2"}

(***************************************************************************)
(* State.                                                                  *)
(***************************************************************************)
VARIABLES
  env,            \* process.env.GOOGLE_API_KEY ("" when unset)
  envChanges,     \* how often the environment changed it
  _apiKey,        \* GeminiService._apiKey ("" for null/undefined)
  supabaseKey,    \* process.env.SUPABASE_API_KEY is set
  initialized,    \* TelemetryService.initialized
  ai_call_logs,   \* rows of the telemetry table
  live,           \* the request slots in use
  inv,            \* per slot: the refineGoal invocation's local state
  http,           \* per slot: the POST /api/goals/refine request it serves
  currentRefinement,  \* per slot: the state of its RefineGoal component
  storageInitialized, \* StorageService.initialized
  goals,          \* rows of the goals table
  save,           \* per slot: the POST /api/goals request it serves
  console_log,    \* the function console.log is
  process_exit,   \* the function process.exit is
  imported,       \* test_evals.js has been evaluated
  TEST_RESULTS,   \* the suite's module-level TEST_RESULTS
  run,            \* the calls of runAllTests and their position in the suite
  req             \* per slot: the POST /api/eval/run-tests request it serves

\* the state outside GeminiService, TelemetryService and
\* GoalController.refineGoal
outside ==
  <<currentRefinement, storageInitialized, goals, save,
    console_log, process_exit, imported, TEST_RESULTS, run, req>>

vars ==
  <<env, envChanges, _apiKey, supabaseKey, initialized, ai_call_logs, live, inv, http,
    currentRefinement, storageInitialized, goals, save,
    console_log, process_exit, imported, TEST_RESULTS, run, req>>

\* res.status(status).json({success, data, error}); status 0: nothing sent
Res(status, success, data, error) ==
  [status |-> status, success |-> success, data |-> data, error |-> error]

\* A slot with no request; goal is req.body.goal of the slot's request,
\* refused counts the requests answered without a call of the service.
NoRequest ==
  [state |-> "none", goal |-> Undef, refused |-> 0, res |-> Res(0, FALSE, Undef, <<>>)]

NoResult == [kind |-> "none", value |-> Undef, error |-> NoError]

\* A slot before refineGoal is called; calls counts its invocations.
Idle ==
  [pc |-> "idle", calls |-> 0, userInput |-> Undef, attempt |-> 0,
   response |-> NoTextEnvelope, validated |-> Undef, caught |-> NoError,
   entry |-> NoEntry, result |-> NoResult,
   \* history of the invocation
   attempts |-> 0, posts |-> 0, waits |-> 0, waitedMs |-> 0,
   errs |-> <<>>, keys |-> <<>>,
   gateway |-> "none", gatewayError |-> NoError,
   emitted |-> <<>>, written |-> 0, sinkFailures |-> 0]

\* The calls of runAllTests: the one the module makes when it is evaluated
\* (0) and the one of each request slot.
Runs == 0..NumProcs

\* console.log and process.exit as the process starts them
Original == [fn |-> "original", of |-> 0]

NoSummary == [total |-> 0, passed |-> 0, failed |-> 0, successRate |-> 0, tests |-> 0]

\* A slot with no POST /api/eval/run-tests request
NoEvalRequest ==
  [pc |-> "idle", originalExit |-> Original, originalConsoleLog |-> Original,
   status |-> 0, results |-> NoSummary]

\* A slot with no POST /api/goals request; handed is what the slot's
\* requests passed to StorageService.saveGoal.
NoSave == [pc |-> "idle", calls |-> 0, body |-> Undef, handed |-> <<>>, status |-> 0]

InitOutside ==
  /\ currentRefinement = [p \in Procs |-> Null]
  /\ storageInitialized = FALSE
  /\ goals = <<>>
  /\ save = [p \in Procs |-> NoSave]
  /\ console_log = Original
  /\ process_exit = Original
  /\ imported = FALSE
  /\ TEST_RESULTS = [passed |-> 0, failed |-> 0, tests |-> 0]
  /\ run = [k \in Runs |-> [pc |-> "none", i |-> 0]]
  /\ req = [p \in Procs |-> NoEvalRequest]

Init ==
  /\ env \in {"", "k1"}
  /\ envChanges = 0
  /\ _apiKey = ""
  /\ supabaseKey \in BOOLEAN
  /\ initialized = FALSE
  /\ ai_call_logs = <<>>
  /\ live = {1}
  /\ inv = [p \in Procs |-> Idle]
  /\ http = [p \in Procs |-> NoRequest]
  /\ InitOutside

(***************************************************************************)
(* GeminiService: the code of one invocation between two awaits, as a      *)
(* function of its local state s.                                          *)
(***************************************************************************)

\* a getter that reads the environment at every access
apiKey_noCache == env

\* get apiKey(): the value returned, which is also the value left in _apiKey
apiKey == IF _apiKey = "" THEN env ELSE _apiKey

\* TelemetryService.initialize succeeds (else it throws InitError)
CanInitialize == initialized \/ supabaseKey

\* refineGoal returns value to its caller
Return(s, value) ==
  [s EXCEPT !.pc = "done",
            !.result = [kind |-> "return", value |-> value, error |-> NoError]]

\* an error that is swallowed: refineGoal resolves with undefined
Throw_swallowed(s, error) == Return(s, Undef)

\* refineGoal rejects with error
Throw(s, error) ==
  [s EXCEPT !.pc = "done",
            !.result = [kind |-> "throw", value |-> Undef, error |-> error]]

\* the guardrail with the controller's threshold
guardrail_lt3(validated) == validated.confidence_score.n < 3

\* validatedResponse.confidence_score < 4
guardrail(validated) == validated.confidence_score.n < GuardrailThreshold

\* a catch block that rethrows without logging
catchBlock_noLog(s, error) == Throw([s EXCEPT !.caught = error], error)

\* a catch block that logs the input kept in state shared by all
\* invocations: the input of the row stored last
catchBlock_sharedInput(s, error) ==
  LET input == IF ai_call_logs = <<>> THEN s.userInput
               ELSE ai_call_logs[Len(ai_call_logs)].input
      e == FailureEntry(input, error)
      s1 == [s EXCEPT !.caught = error, !.emitted = Append(@, e)]
  IN IF CanInitialize
       THEN [s1 EXCEPT !.pc = "insertFailure", !.entry = e]
       ELSE Throw([s1 EXCEPT !.sinkFailures = @ + 1], InitError)

\* The catch block of refineGoal: log the failure, then rethrow.
catchBlock(s, error) ==
  LET e == FailureEntry(s.userInput, error)
      s1 == [s EXCEPT !.caught = error, !.emitted = Append(@, e)]
  IN IF CanInitialize
       THEN [s1 EXCEPT !.pc = "insertFailure", !.entry = e]
       ELSE Throw([s1 EXCEPT !.sinkFailures = @ + 1], InitError)

\* The catch block of callGeminiAPIWithRetry, surfacing the first error
attemptFailed_firstError(s, error) ==
  LET s1 == [s EXCEPT !.errs = Append(@, error)] IN
    IF s.attempt = maxRetries
      THEN catchBlock([s1 EXCEPT !.gateway = "threw", !.gatewayError = Head(s1.errs)],
                      Head(s1.errs))
      ELSE [s1 EXCEPT !.pc = "delay", !.waits = @ + 1]

\* The catch block of callGeminiAPIWithRetry, delaying before the rethrow too
attemptFailed_waitAfterLast(s, error) ==
  LET s1 == [s EXCEPT !.errs = Append(@, error), !.waits = @ + 1] IN
    IF s.attempt = maxRetries
      THEN catchBlock([s1 EXCEPT !.gateway = "threw", !.gatewayError = error], error)
      ELSE [s1 EXCEPT !.pc = "delay"]

\* The catch block of callGeminiAPIWithRetry leaving the loop after the last
\* attempt without rethrowing: the call never settles
attemptFailed_noRethrow(s, error) ==
  LET s1 == [s EXCEPT !.errs = Append(@, error)] IN
    IF s.attempt = maxRetries
      THEN [s1 EXCEPT !.pc = "pending"]
      ELSE [s1 EXCEPT !.pc = "delay", !.waits = @ + 1]

\* The catch block of callGeminiAPIWithRetry
attemptFailed(s, error) ==
  LET s1 == [s EXCEPT !.errs = Append(@, error)] IN
    IF s.attempt = maxRetries
      THEN catchBlock([s1 EXCEPT !.gateway = "threw", !.gatewayError = error], error)
      ELSE [s1 EXCEPT !.pc = "delay", !.waits = @ + 1]

\* refineGoal sending an unparseable or schema-invalid response back into
\* the retry loop
afterResponse_retryParse(s, data) ==
  LET s1 == [s EXCEPT !.response = data, !.gateway = "returned"]
      parsed == parseResponse(data)
      checked == goalSchemaParse(parsed.value)
  IN IF ~parsed.ok THEN attemptFailed(s1, parsed.error)
     ELSE IF ~checked.ok THEN attemptFailed(s1, checked.error)
     ELSE LET s2 == [s1 EXCEPT !.validated = checked.value] IN
       IF guardrail(checked.value) THEN Return(s2, Rejection)
       ELSE LET e == SuccessEntry(s.userInput, checked.value)
                s3 == [s2 EXCEPT !.emitted = Append(@, e)]
            IN IF CanInitialize
                 THEN [s3 EXCEPT !.pc = "insertSuccess", !.entry = e]
                 ELSE catchBlock([s3 EXCEPT !.sinkFailures = @ + 1], InitError)

\* refineGoal losing the response of an attempt that was a retry
afterResponse_lostOnRetry(s, data) ==
  LET s1 == [s EXCEPT !.response = data, !.gateway = "returned"]
      parsed == parseResponse(IF s.attempt > 1 THEN NoTextEnvelope ELSE data)
      checked == goalSchemaParse(parsed.value)
  IN IF ~parsed.ok THEN catchBlock(s1, parsed.error)
     ELSE IF ~checked.ok THEN catchBlock(s1, checked.error)
     ELSE LET s2 == [s1 EXCEPT !.validated = checked.value] IN
       IF guardrail(checked.value) THEN Return(s2, Rejection)
       ELSE LET e == SuccessEntry(s.userInput, checked.value)
                s3 == [s2 EXCEPT !.emitted = Append(@, e)]
            IN IF CanInitialize
                 THEN [s3 EXCEPT !.pc = "insertSuccess", !.entry = e]
                 ELSE catchBlock([s3 EXCEPT !.sinkFailures = @ + 1], InitError)

\* refineGoal from the gateway's response to the next await or the return
afterResponse(s, data) ==
  LET s1 == [s EXCEPT !.response = data, !.gateway = "returned"]
      parsed == parseResponse(data)
      checked == goalSchemaParse(parsed.value)
  IN IF ~parsed.ok THEN catchBlock(s1, parsed.error)
     ELSE IF ~checked.ok THEN catchBlock(s1, checked.error)
     ELSE LET s2 == [s1 EXCEPT !.validated = checked.value] IN
       IF guardrail(checked.value) THEN Return(s2, Rejection)
       ELSE LET e == SuccessEntry(s.userInput, checked.value)
                s3 == [s2 EXCEPT !.emitted = Append(@, e)]
            IN IF CanInitialize
                 THEN [s3 EXCEPT !.pc = "insertSuccess", !.entry = e]
                 ELSE catchBlock([s3 EXCEPT !.sinkFailures = @ + 1], InitError)

\* callGeminiAPI up to the fetch, or to its failure
callGeminiAPI(s) ==
  LET s1 == [s EXCEPT !.attempts = @ + 1] IN
    IF apiKey = ""
      THEN attemptFailed(s1, MissingKeyError)
      ELSE [s1 EXCEPT !.pc = "fetch", !.posts = @ + 1, !.keys = Append(@, apiKey)]

\* handleEmptyInput returning the sentinel without logging
handleEmptyInput_noLog(s) == Return(s, Sentinel)

\* handleEmptyInput up to the insert
handleEmptyInput(s) ==
  LET s1 == [s EXCEPT !.emitted = Append(@, EmptyEntry)] IN
    IF CanInitialize
      THEN [s1 EXCEPT !.pc = "insertEmpty", !.entry = EmptyEntry]
      ELSE Throw([s1 EXCEPT !.sinkFailures = @ + 1], InitError)

\* the input check without the trim
isEmptyInput_noTrim(userInput) ==
  \/ ~Truthy(userInput)
  \/ userInput.t # "string"

\* !userInput || typeof userInput !== 'string' || userInput.trim().length === 0
isEmptyInput(userInput) ==
  \/ ~Truthy(userInput)
  \/ userInput.t # "string"
  \/ Len(trim(userInput.s)) = 0

\* logAICall swallowing a failed insert: the caller goes on as after a
\* stored row
afterInsert_swallow(s, ok) ==
  CASE s.pc = "insertSuccess" -> Return(s, s.validated)
    [] s.pc = "insertFailure" -> Throw(s, s.caught)
    [] s.pc = "insertEmpty" -> Return(s, Sentinel)

\* The code after await TelemetryService.logAICall: the insert stored the
\* row (ok), or logAICall rethrew the insert's error.
afterInsert(s, ok) ==
  CASE s.pc = "insertSuccess" ->
         IF ok THEN Return(s, s.validated) ELSE catchBlock(s, InsertError)
    [] s.pc = "insertFailure" ->
         IF ok THEN Throw(s, s.caught) ELSE Throw(s, InsertError)
    [] s.pc = "insertEmpty" ->
         IF ok THEN Return(s, Sentinel) ELSE Throw(s, InsertError)

(***************************************************************************)
(* GoalController.refineGoal.                                              *)
(***************************************************************************)
\* value.confidence_score, undefined when the object has no such property
confidenceScoreOf(value) ==
  IF "confidence_score" \in DOMAIN value THEN value.confidence_score ELSE Undef

\* v < k for the values the service returns: undefined compares false
LessThan(v, k) ==
  CASE v.t = "number" -> v.n < k
    [] v.t = "null" -> 0 < k
    [] OTHER -> FALSE

\* The response to the settled service call
controllerResponse(result) ==
  IF result.kind = "throw"
    THEN Res(500, FALSE, Undef,
             IF result.error.message = <<>> THEN <<"Failed to refine goal">>
                                            ELSE result.error.message)
    ELSE IF LessThan(confidenceScoreOf(result.value), 3)
      THEN Res(400, FALSE, result.value,
               <<"Input does not appear to be a valid goal. Please provide a clear goal statement.">>)
      ELSE Res(200, TRUE, result.value, <<>>)

(***************************************************************************)
(* The evaluation suite's assertValidJsonSchema: its list of errors, as a  *)
(* set.  A property with an undefined value is not sent in the JSON body.  *)
(***************************************************************************)
Has(data, field) == field \in DOMAIN data /\ data[field] # Undef

assertValidJsonSchema(data) ==
  {<<"Missing required field", f>> :
     f \in {f \in {"refined_goal", "key_results", "confidence_score"} : ~Has(data, f)}}
  \cup
  (IF ~Has(data, "refined_goal") THEN {}
   ELSE IF data.refined_goal.t # "string"
     THEN {<<"refined_goal must be a string", "">>}
     ELSE IF Len(trim(data.refined_goal.s)) = 0
       THEN {<<"refined_goal cannot be empty", "">>}
       ELSE {})
  \cup
  (IF ~Has(data, "key_results") THEN {}
   ELSE IF data.key_results.t # "array"
     THEN {<<"key_results must be an array", "">>}
     ELSE IF Len(data.key_results.a) = 0
       THEN {<<"key_results cannot be empty", "">>}
       ELSE IF Len(data.key_results.a) > 5
         THEN {<<"key_results cannot have more than 5 items", "">>}
         ELSE {<<"key_results[i] must be a non-empty string", "i">> :
                 i \in {j \in 1..Len(data.key_results.a) :
                          \/ data.key_results.a[j].t # "string"
                          \/ Len(trim(data.key_results.a[j].s)) = 0}})
  \cup
  (IF ~Has(data, "confidence_score") THEN {}
   ELSE IF data.confidence_score.t # "number"
     THEN {<<"confidence_score must be a number", "">>}
     ELSE IF data.confidence_score.n < 1
             \/ data.confidence_score.n > 10
             \/ (data.confidence_score.n = 10 /\ data.confidence_score.half)
       THEN {<<"confidence_score must be between 1 and 10", "">>}
       ELSE {})

(***************************************************************************)
(* Actions.                                                                *)
(***************************************************************************)

\* The shared state an invocation's step leaves: the credential cache is
\* filled when the step read apiKey, TelemetryService is initialized when
\* the step called logAICall with the key present.
Step(p, before, s) ==
  /\ inv' = [inv EXCEPT ![p] = s]
  /\ _apiKey' = IF s.attempts > before.attempts THEN apiKey ELSE _apiKey
  /\ initialized' = (initialized
                       \/ (supabaseKey /\ Len(s.emitted) > Len(before.emitted)))

\* The slot is free for another call or request.
Free(p) ==
  /\ p \in live
  /\ inv[p].pc \in {"idle", "done"}
  /\ http[p].state # "pending"
  /\ inv[p].calls + http[p].refused < MaxCalls

\* GeminiService.refineGoal(userInput) up to its first await
invoke(p, userInput) ==
  LET s == [Idle EXCEPT !.calls = inv[p].calls + 1, !.userInput = userInput] IN
    Step(p, s, IF isEmptyInput(userInput)
                 THEN handleEmptyInput(s)
                 ELSE callGeminiAPI([s EXCEPT !.attempt = 1]))

\* A caller invokes refineGoal(userInput).
refineGoal(p, userInput) ==
  /\ Free(p)
  /\ invoke(p, userInput)
  /\ http' = [http EXCEPT ![p] = [NoRequest EXCEPT !.refused = http[p].refused]]
  /\ UNCHANGED <<env, envChanges, supabaseKey, ai_call_logs, live>>
  /\ UNCHANGED outside

\* the controller without its input check
postRefine_noCheck(p, goal) ==
  /\ Free(p)
  /\ invoke(p, goal)
  /\ http' = [http EXCEPT ![p] = [NoRequest EXCEPT !.state = "pending",
                                                   !.goal = goal,
                                                   !.refused = http[p].refused]]
  /\ UNCHANGED <<env, envChanges, supabaseKey, ai_call_logs, live>>
  /\ UNCHANGED outside

\* GoalController.refineGoal: POST /api/goals/refine with body {goal}, up to
\* the 400 response or to the first await of the service call.
postRefine(p, goal) ==
  /\ Free(p)
  /\ IF ~Truthy(goal) \/ goal.t # "string"
       THEN /\ http' = [http EXCEPT ![p] =
                         [state |-> "sent", goal |-> goal,
                          refused |-> @.refused + 1,
                          res |-> Res(400, FALSE, Undef,
                                      <<"Goal input is required and must be a string">>)]]
            /\ UNCHANGED <<inv, _apiKey, initialized>>
       ELSE /\ invoke(p, goal)
            /\ http' = [http EXCEPT ![p] = [NoRequest EXCEPT !.state = "pending",
                                                             !.goal = goal,
                                                             !.refused = http[p].refused]]
  /\ UNCHANGED <<env, envChanges, supabaseKey, ai_call_logs, live>>
  /\ UNCHANGED outside

\* GoalController.refineGoal after await GeminiService.refineGoal(goal)
respond(p) ==
  /\ http[p].state = "pending"
  /\ inv[p].pc = "done"
  /\ http' = [http EXCEPT ![p].state = "sent",
                          ![p].res = controllerResponse(inv[p].result)]
  /\ UNCHANGED <<env, envChanges, _apiKey, supabaseKey, initialized, ai_call_logs,
                 live, inv>>
  /\ UNCHANGED outside

\* The fetch of the current attempt settles and its body is read.
fetchDone(p, outcome) ==
  /\ inv[p].pc = "fetch"
  /\ Step(p, inv[p],
          CASE outcome.k = "ok" -> afterResponse(inv[p], outcome.data)
            [] outcome.k = "transport" -> attemptFailed(inv[p], TransportError)
            [] outcome.k = "http" -> attemptFailed(inv[p], HttpError(outcome.status))
            [] outcome.k = "body" -> attemptFailed(inv[p], BodyError))
  /\ UNCHANGED <<env, envChanges, supabaseKey, ai_call_logs, live, http>>
  /\ UNCHANGED outside

\* The delay between two attempts elapses and the loop makes the next one.
delayDone(p) ==
  /\ inv[p].pc = "delay"
  /\ Step(p, inv[p], callGeminiAPI([inv[p] EXCEPT !.attempt = @ + 1,
                                                  !.waitedMs = @ + BackoffMs]))
  /\ UNCHANGED <<env, envChanges, supabaseKey, ai_call_logs, live, http>>
  /\ UNCHANGED outside

\* The insert of logAICall settles: the row is stored, or the insert failed.
insertDone(p, ok) ==
  /\ inv[p].pc \in {"insertSuccess", "insertFailure", "insertEmpty"}
  /\ LET s == [inv[p] EXCEPT !.written = IF ok THEN @ + 1 ELSE @,
                             !.sinkFailures = IF ok THEN @ ELSE @ + 1] IN
       Step(p, s, afterInsert(s, ok))
  /\ ai_call_logs' = IF ok THEN Append(ai_call_logs, inv[p].entry) ELSE ai_call_logs
  /\ UNCHANGED <<env, envChanges, supabaseKey, live, http>>
  /\ UNCHANGED outside

\* The environment sets, changes or removes GOOGLE_API_KEY.
setEnv(value) ==
  /\ envChanges < MaxEnvChanges
  /\ value # env
  /\ env' = value
  /\ envChanges' = envChanges + 1
  /\ UNCHANGED <<_apiKey, supabaseKey, initialized, ai_call_logs, live, inv, http>>
  /\ UNCHANGED outside

Next ==
  \/ \E p \in Procs, userInput \in Inputs : refineGoal(p, userInput)
  \/ \E p \in Procs, goal \in Inputs : postRefine(p, goal)
  \/ \E p \in Procs : respond(p)
  \/ \E p \in Procs, outcome \in NetOutcomes : fetchDone(p, outcome)
  \/ \E p \in Procs : delayDone(p)
  \/ \E p \in Procs, ok \in BOOLEAN : insertDone(p, ok)
  \/ \E value \in EnvValues : setEnv(value)

Spec == Init /\ [][Next]_vars

(***************************************************************************)
(* Concurrent invocations: every slot is in use and the invocations'       *)
(* steps interleave freely, with fewer inputs and network outcomes and     *)
(* with GOOGLE_API_KEY left as it was at the start.                        *)
(***************************************************************************)
ConcInputs == {Str(<<" ">>), Str(<<"a">>), Str(<<" ", "a", "b">>)}

ConcOutcomes ==
  { [k |-> "transport"],
    [k |-> "ok", data |-> Envelope(<<Json(Goal(3, Num(3)))>>)],
    [k |-> "ok", data |-> Envelope(<<Json(Goal(3, Num(4)))>>)],
    [k |-> "ok", data |-> Envelope(<<Json(Goal(2, Num(8)))>>)] }

InitConc ==
  /\ env \in {"", "k1"}
  /\ envChanges = 0
  /\ _apiKey = ""
  /\ supabaseKey \in BOOLEAN
  /\ initialized = FALSE
  /\ ai_call_logs = <<>>
  /\ live = Procs
  /\ inv = [p \in Procs |-> Idle]
  /\ http = [p \in Procs |-> NoRequest]
  /\ InitOutside

NextConc ==
  \/ \E p \in Procs, userInput \in ConcInputs : refineGoal(p, userInput)
  \/ \E p \in Procs, outcome \in ConcOutcomes : fetchDone(p, outcome)
  \/ \E p \in Procs : delayDone(p)
  \/ \E p \in Procs, ok \in BOOLEAN : insertDone(p, ok)

SpecConc == InitConc /\ [][NextConc]_vars

(***************************************************************************)
(* One caller of the service under fair scheduling: a fetch in flight      *)
(* settles, a timer elapses and an insert settles, each with one of its    *)
(* outcomes; the caller itself is free not to call.                        *)
(***************************************************************************)
LiveOutcomes ==
  ConcOutcomes \cup
    { [k |-> "http", status |-> "500"], [k |-> "body"],
      [k |-> "ok", data |-> Envelope(<<Garbage>>)],
      [k |-> "ok", data |-> NoTextEnvelope] }

NextLive ==
  \/ \E p \in Procs, userInput \in Inputs : refineGoal(p, userInput)
  \/ \E p \in Procs, outcome \in LiveOutcomes : fetchDone(p, outcome)
  \/ \E p \in Procs : delayDone(p)
  \/ \E p \in Procs, ok \in BOOLEAN : insertDone(p, ok)

Fairness ==
  \A p \in Procs :
    /\ WF_vars(\E outcome \in LiveOutcomes : fetchDone(p, outcome))
    /\ WF_vars(delayDone(p))
    /\ WF_vars(\E ok \in BOOLEAN : insertDone(p, ok))

SpecLive == Init /\ [][NextLive]_vars /\ Fairness

(***************************************************************************)
(* The evaluation suite (test_evals.js) and the POST /api/eval/run-tests   *)
(* handler of server.js.  Each runTest awaits one POST /api/goals/refine   *)
(* and counts the test as passed or failed.                                *)
(***************************************************************************)
\* the state of the refinement pipeline
service ==
  <<env, envChanges, _apiKey, supabaseKey, initialized, ai_call_logs, live, inv, http>>

\* the runTest calls of runAllTests
SuiteSize == 3 + 7

\* the closures the handler of request p installs
Wrapper(p) == [fn |-> "wrapper", of |-> p]
NoOp(p) == [fn |-> "noop", of |-> p]

\* printSummary's return value; tests is the length of the array
printSummary(results) ==
  LET total == results.passed + results.failed IN
    [total |-> total, passed |-> results.passed, failed |-> results.failed,
     successRate |-> IF total > 0 THEN (results.passed * 100) \div total ELSE 0,
     tests |-> results.tests]

\* The handler up to await import('../test_evals.js')
postRunTests(p) ==
  /\ req[p].pc = "idle"
  /\ req' = [req EXCEPT ![p].pc = "import"]
  /\ UNCHANGED <<currentRefinement, storageInitialized, goals, save,
                 console_log, process_exit, imported, TEST_RESULTS, run>>
  /\ UNCHANGED service

\* The import settles: the first one evaluates the module, whose last
\* statement calls runAllTests(); then the handler replaces process.exit and
\* console.log and calls runAllTests() itself.  At most MaxOverlap runs are
\* in flight at a time.
importDone(p) ==
  /\ req[p].pc = "import"
  /\ Cardinality({k \in Runs : run[k].pc = "running"}) + (IF imported THEN 1 ELSE 2)
       <= MaxOverlap
  /\ imported' = TRUE
  /\ req' = [req EXCEPT ![p].pc = "run",
                        ![p].originalExit = process_exit,
                        ![p].originalConsoleLog = console_log]
  /\ process_exit' = NoOp(p)
  /\ console_log' = Wrapper(p)
  /\ run' = [k \in Runs |->
               IF k = p \/ (k = 0 /\ ~imported) THEN [pc |-> "running", i |-> 0]
               ELSE run[k]]
  /\ UNCHANGED <<currentRefinement, storageInitialized, goals, save, TEST_RESULTS>>
  /\ UNCHANGED service

\* The handler after await runAllTests()
afterRun(p, summary) ==
  /\ req' = [req EXCEPT ![p].pc = "sent", ![p].status = 200, ![p].results = summary]
  /\ console_log' = req[p].originalConsoleLog
  /\ process_exit' = req[p].originalExit

\* A runTest of run k settles, its test passed or failed; after the last
\* one runAllTests returns printSummary() and the awaiting handler goes on.
testDone(k, passed) ==
  /\ run[k].pc = "running"
  /\ passed \/ TEST_RESULTS.failed < MaxFailed
  /\ TEST_RESULTS' = [passed |-> TEST_RESULTS.passed + (IF passed THEN 1 ELSE 0),
                      failed |-> TEST_RESULTS.failed + (IF passed THEN 0 ELSE 1),
                      tests |-> TEST_RESULTS.tests + 1]
  /\ IF run[k].i + 1 < SuiteSize
       THEN /\ run' = [run EXCEPT ![k].i = @ + 1]
            /\ UNCHANGED <<req, console_log, process_exit>>
       ELSE /\ run' = [run EXCEPT ![k] = [pc |-> "done", i |-> SuiteSize]]
            /\ IF k = 0 THEN UNCHANGED <<req, console_log, process_exit>>
               ELSE afterRun(k, printSummary(TEST_RESULTS'))
  /\ UNCHANGED <<currentRefinement, storageInitialized, goals, save, imported>>
  /\ UNCHANGED service

NextEval ==
  \/ \E p \in Procs : postRunTests(p)
  \/ \E p \in Procs : importDone(p)
  \/ \E k \in Runs, passed \in BOOLEAN : testDone(k, passed)

InitEval == Init /\ env = "k1" /\ supabaseKey

SpecEval == InitEval /\ [][NextEval]_vars

(***************************************************************************)
(* GoalController.saveGoal and StorageService.saveGoal: POST /api/goals.   *)
(***************************************************************************)
\* req.body of POST /api/goals
SaveBodies ==
  [userInput : {Undef, Str(<<"a">>)},
   refined_goal : {Str(<<>>), g},
   key_results : {Undef, Arr(<<kr>>), Arr(<<kr, kr, kr>>)},
   confidence_score : {Num(0), Num(7), Num(11)}]

\* the goal row StorageService.saveGoal builds from its arguments
goalRow(originalInput, refinedGoalData) ==
  [original_input |-> originalInput,
   refined_goal |-> refinedGoalData.refined_goal,
   key_results |-> refinedGoalData.key_results,
   confidence_score |-> refinedGoalData.confidence_score]

\* GoalController.saveGoal up to its response or to the await of the insert
postGoal(p, body) ==
  /\ save[p].pc \in {"idle", "sent"}
  /\ save[p].calls < MaxCalls
  /\ IF ~Truthy(body.userInput) \/ ~Truthy(body.refined_goal)
        \/ ~Truthy(body.key_results) \/ ~Truthy(body.confidence_score)
       THEN /\ save' = [save EXCEPT ![p] =
                         [pc |-> "sent", calls |-> @.calls + 1, body |-> body,
                          handed |-> <<>>, status |-> 400]]
            /\ UNCHANGED storageInitialized
       ELSE LET row == goalRow(body.userInput,
                               [refined_goal |-> body.refined_goal,
                                key_results |-> body.key_results,
                                confidence_score |-> body.confidence_score])
            IN IF storageInitialized \/ supabaseKey
                 THEN /\ save' = [save EXCEPT ![p] =
                                   [pc |-> "insert", calls |-> @.calls + 1, body |-> body,
                                    handed |-> <<row>>, status |-> 0]]
                      /\ storageInitialized' = TRUE
                 ELSE /\ save' = [save EXCEPT ![p] =
                                   [pc |-> "sent", calls |-> @.calls + 1, body |-> body,
                                    handed |-> <<row>>, status |-> 500]]
                      /\ UNCHANGED storageInitialized
  /\ UNCHANGED <<currentRefinement, goals,
                 console_log, process_exit, imported, TEST_RESULTS, run, req>>
  /\ UNCHANGED service

\* The insert into goals settles; the controller answers 201 or 500.
insertGoalDone(p, ok) ==
  /\ save[p].pc = "insert"
  /\ goals' = IF ok THEN Append(goals, save[p].handed[1]) ELSE goals
  /\ save' = [save EXCEPT ![p].pc = "sent", ![p].status = IF ok THEN 201 ELSE 500]
  /\ UNCHANGED <<currentRefinement, storageInitialized,
                 console_log, process_exit, imported, TEST_RESULTS, run, req>>
  /\ UNCHANGED service

NextStore ==
  \/ \E p \in Procs, body \in SaveBodies : postGoal(p, body)
  \/ \E p \in Procs, ok \in BOOLEAN : insertGoalDone(p, ok)

InitStore == Init /\ env = "k1"

SpecStore == InitStore /\ [][NextStore]_vars

(***************************************************************************)
(* The RefineGoal component of the client, end to end with the server.     *)
(***************************************************************************)
ClientInputs == {<<" ">>, <<"a">>, <<" ", "a", "b">>}

ClientOutcomes ==
  ConcOutcomes \cup {[k |-> "ok", data |-> Envelope(<<Json(Goal(3, Num(1)))>>)]}

\* handleRefine up to the await of its fetch: the POST reaches the controller
handleRefine(p, userInput) ==
  /\ Len(trim(userInput)) # 0
  /\ postRefine(p, Str(userInput))

\* handleRefine after the response: setCurrentRefinement(data.data)
handleRefineDone(p) ==
  /\ http[p].state = "sent"
  /\ http' = [http EXCEPT ![p].state = "received"]
  /\ currentRefinement' = [currentRefinement EXCEPT ![p] = http[p].res.data]
  /\ UNCHANGED <<env, envChanges, _apiKey, supabaseKey, initialized, ai_call_logs,
                 live, inv>>
  /\ UNCHANGED <<storageInitialized, goals, save,
                 console_log, process_exit, imported, TEST_RESULTS, run, req>>

\* The card the component renders for currentRefinement
card(refinement) ==
  IF "t" \in DOMAIN refinement /\ ~Truthy(refinement) THEN "none"
  ELSE IF LessThan(confidenceScoreOf(refinement), 4) THEN "Low Confidence Input"
  ELSE "AI Refinement Complete"

NextClient ==
  \/ \E p \in Procs, userInput \in ClientInputs : handleRefine(p, userInput)
  \/ \E p \in Procs : respond(p)
  \/ \E p \in Procs : handleRefineDone(p)
  \/ \E p \in Procs, outcome \in ClientOutcomes : fetchDone(p, outcome)
  \/ \E p \in Procs : delayDone(p)
  \/ \E p \in Procs, ok \in BOOLEAN : insertDone(p, ok)

SpecClient == Init /\ [][NextClient]_vars

(***************************************************************************)
(* Vocabulary of the properties.                                           *)
(***************************************************************************)
Done(p) == inv[p].pc = "done"

\* The input is absent, not a string, empty or whitespace-only
BlankInput(userInput) ==
  \/ userInput.t # "string"
  \/ \A i \in 1..Len(userInput.s) : userInput.s[i] \in {" ", "\n"}

IsGoalObject(value) == "refined_goal" \in DOMAIN value

\* The outcome of a completed invocation
Outcome(p) ==
  CASE inv[p].result.kind = "throw" -> "Failed"
    [] inv[p].result.kind = "return" /\ inv[p].result.value = Rejection -> "Rejected"
    [] inv[p].result.kind = "return" /\ IsGoalObject(inv[p].result.value) -> "Accepted"
    [] OTHER -> "none"

\* The field constraints of a RefinedGoal, stated on the value itself
SatisfiesConstraints(value) ==
  /\ value.t = "object"
  /\ value.refined_goal.t = "string"
  /\ Len(value.refined_goal.s) >= 1
  /\ value.key_results.t = "array"
  /\ Len(value.key_results.a) \in 3..5
  /\ \A i \in 1..Len(value.key_results.a) :
       /\ value.key_results.a[i].t = "string"
       /\ Len(value.key_results.a[i].s) >= 1
  /\ value.confidence_score.t = "number"
  /\ ~value.confidence_score.half
  /\ value.confidence_score.n \in 1..10

\* The gateway returned a response to this invocation, and what it decodes to
Delivered(p) == inv[p].gateway = "returned"
Decoded(p) == parseResponse(inv[p].response)
SchemaValid(p) == Delivered(p) /\ Decoded(p).ok /\ SatisfiesConstraints(Decoded(p).value)
ContractViolation(p) == Delivered(p) /\ ~SchemaValid(p)
Score(p) == Decoded(p).value.confidence_score.n

ReturnOf(value) == [kind |-> "return", value |-> value, error |-> NoError]

(***************************************************************************)
(* C1.  As claimed: every goal object refineGoal returns satisfies the     *)
(* field constraints (integer score in 1..10, 3 to 5 key results, no       *)
(* empty text).  The empty-input sentinel is a returned goal object that   *)
(* does not.                                                               *)
(***************************************************************************)
C1_EveryReturnedGoalValid ==
  \A p \in Procs :
    (inv[p].result.kind = "return" /\ IsGoalObject(inv[p].result.value))
      => SatisfiesConstraints(inv[p].result.value)

\* C1 amended: every goal object returned for an input that passes the
\* empty-input check satisfies the field constraints; for an input that does
\* not, the goal object returned is the sentinel.
C1_ReturnedGoalValidUnlessSentinel ==
  \A p \in Procs :
    (inv[p].result.kind = "return" /\ IsGoalObject(inv[p].result.value))
      => IF BlankInput(inv[p].userInput)
           THEN inv[p].result.value = Sentinel
           ELSE SatisfiesConstraints(inv[p].result.value)

C1_Witness ==
  \E p \in Procs :
    /\ Done(p) /\ ~BlankInput(inv[p].userInput)
    /\ Outcome(p) = "Accepted"
    /\ inv[p].result.value.confidence_score.n = 10
    /\ Len(inv[p].result.value.key_results.a) = 5

(***************************************************************************)
(* C2.  As claimed: an invocation with absent, non-string, empty or        *)
(* whitespace-only input returns the sentinel, with no API attempt and no  *)
(* backoff wait.  The return fails when the telemetry write fails.         *)
(***************************************************************************)
C2_EmptyInputReturnsSentinel ==
  \A p \in Procs :
    (inv[p].calls > 0 /\ BlankInput(inv[p].userInput))
      => /\ inv[p].attempts = 0 /\ inv[p].posts = 0 /\ inv[p].waits = 0
         /\ Done(p) => inv[p].result = ReturnOf(Sentinel)

\* C2 amended: such an invocation never invokes the gateway (no attempt, no
\* POST, no backoff wait); it returns the sentinel when its telemetry write
\* succeeds and raises the telemetry failure otherwise.
C2_EmptyInputNeverCallsGateway ==
  \A p \in Procs :
    (inv[p].calls > 0 /\ BlankInput(inv[p].userInput))
      => /\ inv[p].attempts = 0 /\ inv[p].posts = 0 /\ inv[p].waits = 0
         /\ inv[p].gateway = "none"
         /\ Done(p) =>
              IF inv[p].sinkFailures = 0
                THEN inv[p].result = ReturnOf(Sentinel)
                ELSE inv[p].result.kind = "throw"

C2_Witness ==
  \E p \in Procs :
    /\ Done(p)
    /\ inv[p].userInput.t = "string" /\ Len(inv[p].userInput.s) = 2
    /\ BlankInput(inv[p].userInput)
    /\ inv[p].result = ReturnOf(Sentinel)
    /\ inv[p].attempts = 0

(***************************************************************************)
(* C3.  As claimed: for a schema-valid response the invocation returns     *)
(* the rejection value exactly when the score is below 4 and the validated *)
(* goal exactly when it is 4 or more.  With a score of 4 or more the goal  *)
(* is not returned when the telemetry write fails.                         *)
(***************************************************************************)
C3_GuardrailDecidesResult ==
  \A p \in Procs :
    (Done(p) /\ SchemaValid(p))
      => /\ (inv[p].result = ReturnOf(Rejection)) <=> (Score(p) < 4)
         /\ (inv[p].result = ReturnOf(inv[p].validated)) <=> (Score(p) >= 4)

\* C3 amended: for a schema-valid response the invocation returns the
\* rejection value, with no goal fields, exactly when the score is below 4;
\* with a score of 4 or more it returns the validated goal when the telemetry
\* write succeeds and raises otherwise, and it never returns a goal for a
\* score below 4.
C3_GuardrailDecidesResultIfLogged ==
  \A p \in Procs :
    (Done(p) /\ SchemaValid(p))
      => /\ (inv[p].result = ReturnOf(Rejection)) <=> (Score(p) < 4)
         /\ DOMAIN Rejection = {"error"}
         /\ Score(p) >= 4 =>
              IF inv[p].sinkFailures = 0
                THEN /\ inv[p].result = ReturnOf(inv[p].validated)
                     /\ inv[p].validated.confidence_score = Decoded(p).value.confidence_score
                     /\ inv[p].validated.key_results = Decoded(p).value.key_results
                     /\ inv[p].validated.refined_goal = Decoded(p).value.refined_goal
                ELSE inv[p].result.kind = "throw"

C3_Witness ==
  /\ \E p \in Procs : Done(p) /\ SchemaValid(p) /\ Score(p) = 3
                        /\ Outcome(p) = "Rejected"
                        /\ ~BlankInput(inv[p].userInput)

C3_WitnessAccepted ==
  \E p \in Procs : Done(p) /\ SchemaValid(p) /\ Score(p) = 4
                     /\ Outcome(p) = "Accepted"

(***************************************************************************)
(* C4.  Every invocation that is not short-circuited on empty input emits  *)
(* exactly one telemetry record before it completes.                       *)
(***************************************************************************)
C4_ExactlyOneRecord ==
  \A p \in Procs :
    (Done(p) /\ ~BlankInput(inv[p].userInput)) => Len(inv[p].emitted) = 1

(***************************************************************************)
(* C5.  The record of a completed invocation has success = TRUE when the   *)
(* outcome is Accepted or Rejected and success = FALSE when it is Failed.  *)
(***************************************************************************)
C5_SuccessFlagMatchesOutcome ==
  \A p \in Procs :
    (Done(p) /\ ~BlankInput(inv[p].userInput))
      => /\ inv[p].emitted # <<>>
         /\ inv[p].emitted[Len(inv[p].emitted)].success = (Outcome(p) # "Failed")

(***************************************************************************)
(* C6.  An invocation makes at most 3 attempts, each with at most one      *)
(* HTTP POST, and none after the attempt that succeeded: when the gateway  *)
(* has returned, every attempt but the last one had failed.                *)
(***************************************************************************)
C6_AtMostThreeAttempts ==
  \A p \in Procs :
    /\ inv[p].attempts <= 3
    /\ inv[p].posts <= inv[p].attempts
    /\ inv[p].posts = Len(inv[p].keys)
    /\ Len(inv[p].errs) <= inv[p].attempts
    /\ Delivered(p) => inv[p].attempts = Len(inv[p].errs) + 1

C6_Witness ==
  \E p \in Procs :
    Done(p) /\ Delivered(p) /\ inv[p].attempts = 3 /\ inv[p].posts = 3

(***************************************************************************)
(* C7.  A missing credential is not retried: the gateway makes exactly one *)
(* attempt, no backoff wait and no HTTP POST.                              *)
(***************************************************************************)
C7_MissingKeyNotRetried ==
  \A p \in Procs :
    (inv[p].errs # <<>> /\ inv[p].errs[1] = MissingKeyError)
      => inv[p].attempts = 1 /\ inv[p].waits = 0 /\ inv[p].posts = 0

(***************************************************************************)
(* C8.  A contract violation is never retried: once the gateway has        *)
(* returned a response that does not decode to a schema-valid object, no   *)
(* further attempt or wait happens, a record with success = FALSE has been *)
(* emitted, and the invocation ends by raising.                            *)
(***************************************************************************)
C8_ContractViolationNotRetried ==
  \A p \in Procs :
    ContractViolation(p)
      => /\ inv[p].attempts = Len(inv[p].errs) + 1
         /\ inv[p].waits = Len(inv[p].errs)
         /\ inv[p].pc \in {"insertFailure", "done"}
         /\ Len(inv[p].emitted) = 1
         /\ inv[p].emitted[1].success = FALSE
         /\ Done(p) => Outcome(p) = "Failed"

C8_Witness ==
  \E p \in Procs :
    /\ Done(p) /\ ContractViolation(p)
    /\ Decoded(p).ok /\ Decoded(p).value.t = "object"
    /\ Decoded(p).value.key_results.t = "array"
    /\ Len(Decoded(p).value.key_results.a) = 2
    /\ inv[p].attempts = 1
    /\ inv[p].written = 1

(***************************************************************************)
(* C9.  When every attempt fails, the error callGeminiAPIWithRetry raises  *)
(* is the error of the third attempt.                                      *)
(***************************************************************************)
C9_FinalErrorSurfaces ==
  \A p \in Procs :
    inv[p].gateway = "threw"
      => /\ Len(inv[p].errs) = 3
         /\ inv[p].gatewayError = inv[p].errs[3]
         /\ inv[p].caught = inv[p].errs[3] \/ inv[p].sinkFailures > 0

C9_Witness ==
  \E p \in Procs :
    /\ inv[p].gateway = "threw"
    /\ inv[p].errs[1] # inv[p].errs[3]
    /\ inv[p].errs[2] # inv[p].errs[3]
    /\ inv[p].gatewayError = inv[p].errs[3]

(***************************************************************************)
(* C10.  When the gateway has exhausted its retries, a record with         *)
(* success = FALSE, output null and the surfaced error's text has been     *)
(* emitted, and the invocation raises only after that emission: it has not *)
(* completed while the record's write is pending, and it ends by raising.  *)
(***************************************************************************)
C10_FailureLoggedBeforeRaise ==
  \A p \in Procs :
    inv[p].gateway = "threw"
      => /\ Len(inv[p].emitted) = 1
         /\ inv[p].emitted[1].success = FALSE
         /\ inv[p].emitted[1].output = Null
         /\ inv[p].emitted[1].error_message = Str(inv[p].gatewayError.message)
         /\ inv[p].pc \in {"insertFailure", "done"}
         /\ Done(p) => /\ inv[p].result.kind = "throw"
                       /\ inv[p].sinkFailures = 0 =>
                            /\ inv[p].result.error = inv[p].gatewayError
                            /\ ai_call_logs # <<>>
                            /\ ai_call_logs[Len(ai_call_logs)] = inv[p].emitted[1]

C10_Witness ==
  \E p \in Procs :
    /\ Done(p) /\ inv[p].gateway = "threw"
    /\ \A i \in 1..3 : inv[p].errs[i] = TransportError
    /\ inv[p].result.error = TransportError
    /\ inv[p].written = 1

(***************************************************************************)
(* C12.  The gateway waits the fixed 4000 ms between two consecutive       *)
(* attempts and never after the last one: an invocation that has made k    *)
(* attempts has started k - 1 waits (k while the wait before the next      *)
(* attempt is running), at most 2, and has waited (k - 1) * 4000 ms.       *)
(***************************************************************************)
C12_BackoffBetweenAttempts ==
  \A p \in Procs :
    inv[p].attempts >= 1
      => /\ inv[p].attempts \in 1..3
         /\ inv[p].waits <= 2
         /\ inv[p].waits = IF inv[p].pc = "delay"
                             THEN inv[p].attempts
                             ELSE inv[p].attempts - 1
         /\ inv[p].waitedMs = (inv[p].attempts - 1) * 4000

C12_Witness ==
  \E p \in Procs :
    Done(p) /\ inv[p].attempts = 3 /\ inv[p].waits = 2 /\ inv[p].waitedMs = 8000
      /\ inv[p].gateway = "threw"

(***************************************************************************)
(* C13.  A completed invocation has exactly one of three outcomes: it      *)
(* returned a goal object with its three fields, it returned the rejection *)
(* value with the error field only, or it raised an error; an invocation   *)
(* that has not completed has produced none of them.                       *)
(***************************************************************************)
ReturnedGoal(p) ==
  /\ inv[p].result.kind = "return"
  /\ IsGoalObject(inv[p].result.value)
  /\ inv[p].result.value.refined_goal.t = "string"
  /\ inv[p].result.value.key_results.t = "array"
  /\ inv[p].result.value.confidence_score.t = "number"

ReturnedRejection(p) ==
  /\ inv[p].result.kind = "return"
  /\ DOMAIN inv[p].result.value = {"error"}
  /\ inv[p].result.value.error # <<>>

Raised(p) ==
  /\ inv[p].result.kind = "throw"
  /\ inv[p].result.error.message # <<>>

C13_ExactlyOneOutcome ==
  \A p \in Procs :
    /\ Done(p) =>
         Cardinality({o \in {"goal", "rejection", "raised"} :
                        \/ o = "goal" /\ ReturnedGoal(p)
                        \/ o = "rejection" /\ ReturnedRejection(p)
                        \/ o = "raised" /\ Raised(p)}) = 1
    /\ ~Done(p) => inv[p].result.kind = "none"

C13_Witness ==
  \E p \in Procs : Done(p) /\ Raised(p) /\ inv[p].gateway = "returned"
                     /\ inv[p].sinkFailures = 0

(***************************************************************************)
(* C14.  A failed telemetry write makes refineGoal raise: an invocation    *)
(* one of whose logAICall calls failed never completes by returning, on    *)
(* the accepted path, on the failed path and on the empty-input path.      *)
(***************************************************************************)
C14_TelemetryFailurePropagates ==
  \A p \in Procs :
    (Done(p) /\ inv[p].sinkFailures > 0)
      => /\ inv[p].result.kind = "throw"
         /\ inv[p].result.error \in {InsertError, InitError}

\* the accepted path: the success record's insert failed
C14_Witness ==
  \E p \in Procs :
    /\ Done(p) /\ inv[p].sinkFailures = 1
    /\ Len(inv[p].emitted) = 2 /\ inv[p].emitted[1].success
    /\ inv[p].result.error = InsertError

C14_WitnessEmpty ==
  \E p \in Procs :
    /\ Done(p) /\ inv[p].sinkFailures = 1 /\ BlankInput(inv[p].userInput)
    /\ inv[p].result.error = InsertError

C14_WitnessFailed ==
  \E p \in Procs :
    /\ Done(p) /\ inv[p].sinkFailures = 1 /\ inv[p].gateway = "threw"
    /\ inv[p].result.error = InsertError

(***************************************************************************)
(* C15.  For every decoded value the schema validator either returns the   *)
(* validated goal or raises an error with one issue per violated           *)
(* constraint: n violations give n issues.                                 *)
(***************************************************************************)
B(x) == IF x THEN 1 ELSE 0

RECURSIVE BadItems(_)
BadItems(a) ==
  IF a = <<>> THEN 0
  ELSE B(Head(a).t # "string" \/ Head(a) = Str(<<>>)) + BadItems(Tail(a))

\* The number of constraints of the RefinedGoal shape that v violates
ViolationCount(v) ==
  IF v.t # "object" THEN 1
  ELSE (IF v.refined_goal.t # "string" THEN 1
        ELSE B(v.refined_goal.s = <<>>))
     + (IF v.key_results.t # "array" THEN 1
        ELSE B(Len(v.key_results.a) < 3) + B(Len(v.key_results.a) > 5)
               + BadItems(v.key_results.a))
     + (IF v.confidence_score.t # "number" THEN 1
        ELSE B(v.confidence_score.half)
               + B(v.confidence_score.n < 1)
               + B(v.confidence_score.n > 10
                     \/ (v.confidence_score.n = 10 /\ v.confidence_score.half)))

C15_EveryViolationReported ==
  \A p \in Procs :
    (Delivered(p) /\ Decoded(p).ok)
      => IF ViolationCount(Decoded(p).value) = 0
           THEN /\ inv[p].validated.t = "object"
                /\ inv[p].validated.refined_goal = Decoded(p).value.refined_goal
                /\ inv[p].validated.key_results = Decoded(p).value.key_results
                /\ inv[p].validated.confidence_score = Decoded(p).value.confidence_score
           ELSE /\ inv[p].validated = Undef
                /\ inv[p].emitted[1].error_message = Str(<<"ZodError">>)
                /\ inv[p].sinkFailures = 0 =>
                     Cardinality(inv[p].caught.issues) = ViolationCount(Decoded(p).value)

C15_Witness ==
  \E p \in Procs :
    /\ Delivered(p) /\ Decoded(p).ok
    /\ ViolationCount(Decoded(p).value) = 5
    /\ Cardinality(inv[p].caught.issues) = 5
    /\ Done(p) /\ inv[p].result.error.issues = inv[p].caught.issues

(***************************************************************************)
(* C16.  A text payload that is valid structured data inside a fenced      *)
(* code block, with or without the json tag, parses to the same result as  *)
(* the data alone.                                                         *)
(***************************************************************************)
\* text is a fence, an optional tag and whitespace, data, whitespace, a fence
IsFenced(text) ==
  /\ Len(text) >= 3
  /\ text[1].tok = "fence"
  /\ text[Len(text)].tok = "fence"

RECURSIVE StripWs(_)
StripWs(t) ==
  IF t # <<>> /\ t[1].tok = " " THEN StripWs(Tail(t))
  ELSE IF t # <<>> /\ t[Len(t)].tok = " " THEN StripWs(SubSeq(t, 1, Len(t) - 1))
  ELSE t

FencedData(text) ==
  LET inner == SubSeq(text, 2, Len(text) - 1)
      untagged == IF inner[1].tok = "json" THEN Tail(inner) ELSE inner
  IN StripWs(untagged)

C16_FencedParsesAsUnwrapped ==
  \A p \in Procs :
    (Delivered(p) /\ inv[p].response.hasText /\ IsFenced(inv[p].response.text)
       /\ JSONparse(FencedData(inv[p].response.text)).ok)
      => parseResponse(inv[p].response)
           = parseResponse(Envelope(FencedData(inv[p].response.text)))

(***************************************************************************)
(* C20.  The empty-input short-circuit logs: an invocation with absent,    *)
(* non-string, empty or whitespace-only input emits exactly one record,    *)
(* with success = TRUE, zero token counts and the sentinel as output, and  *)
(* that record is stored before the sentinel is returned.                  *)
(***************************************************************************)
C20_EmptyInputIsLogged ==
  \A p \in Procs :
    (inv[p].calls > 0 /\ BlankInput(inv[p].userInput))
      => /\ Len(inv[p].emitted) = 1
         /\ inv[p].emitted[1].success = TRUE
         /\ inv[p].emitted[1].prompt_tokens = 0
         /\ inv[p].emitted[1].completion_tokens = 0
         /\ inv[p].emitted[1].total_tokens = 0
         /\ inv[p].emitted[1].output = Sentinel
         /\ inv[p].emitted[1].error_message = Null
         /\ inv[p].result.kind = "return" =>
              /\ inv[p].written = 1
              /\ ai_call_logs # <<>>
              /\ ai_call_logs[Len(ai_call_logs)] = inv[p].emitted[1]

C20_Witness ==
  \E p \in Procs :
    /\ Done(p) /\ inv[p].userInput = Undef /\ inv[p].calls > 0
    /\ inv[p].result = ReturnOf(Sentinel)
    /\ inv[p].written = 1

(***************************************************************************)
(* C18.  Every 2xx response of POST /api/goals/refine with success = TRUE  *)
(* carries data with refined_goal, key_results and confidence_score,       *)
(* refined_goal a non-empty string, key_results 1 to 5 non-empty strings,  *)
(* confidence_score a number from 1 to 10, so that the evaluation suite    *)
(* finds no schema error in it.                                            *)
(***************************************************************************)
Sent(p) == http[p].state = "sent"

C18_SuccessResponseCarriesGoal ==
  \A p \in Procs :
    (Sent(p) /\ http[p].res.status \in 200..299 /\ http[p].res.success)
      => /\ {"refined_goal", "key_results", "confidence_score"}
              \subseteq DOMAIN http[p].res.data
         /\ http[p].res.data.refined_goal.t = "string"
         /\ http[p].res.data.refined_goal.s # <<>>
         /\ http[p].res.data.key_results.t = "array"
         /\ Len(http[p].res.data.key_results.a) \in 1..5
         /\ \A i \in 1..Len(http[p].res.data.key_results.a) :
              /\ http[p].res.data.key_results.a[i].t = "string"
              /\ http[p].res.data.key_results.a[i].s # <<>>
         /\ http[p].res.data.confidence_score.t = "number"
         /\ http[p].res.data.confidence_score.n \in 1..10
         /\ assertValidJsonSchema(http[p].res.data) = {}

(***************************************************************************)
(* C19.  When the pipeline rejects the input for low confidence, the       *)
(* response of POST /api/goals/refine has success = FALSE and the          *)
(* not-a-valid-goal error, never success = TRUE.                           *)
(***************************************************************************)
C19_RejectionAnsweredAsFailure ==
  \A p \in Procs :
    (Sent(p) /\ http[p].res.status # 0 /\ inv[p].calls > 0
       /\ inv[p].result = ReturnOf(Rejection))
      => /\ http[p].res.success = FALSE
         /\ http[p].res.error # <<>>
         /\ http[p].res.status \notin 200..299

(***************************************************************************)
(* C11.  An invocation whose attempts 1 and 2 fail on transport and whose  *)
(* attempt 3 succeeds with response R returns the same result as an        *)
(* invocation whose attempt 1 succeeds with R, the telemetry writes of     *)
(* both faring alike; and it has waited the backoff exactly twice, the     *)
(* other one never.                                                        *)
(***************************************************************************)
RetriedTwice(p) ==
  /\ Done(p) /\ Delivered(p)
  /\ inv[p].attempts = 3
  /\ inv[p].errs = <<TransportError, TransportError>>

FirstTry(p) ==
  /\ Done(p) /\ Delivered(p)
  /\ inv[p].attempts = 1
  /\ inv[p].errs = <<>>

C11_RetryThenSuccessIsSuccess ==
  \A p \in Procs, q \in Procs :
    (RetriedTwice(p) /\ FirstTry(q)
       /\ inv[p].response = inv[q].response
       /\ inv[p].sinkFailures = inv[q].sinkFailures)
      => /\ inv[p].result = inv[q].result
         /\ Outcome(p) = Outcome(q)
         /\ inv[p].waits = 2
         /\ inv[p].waitedMs = 2 * BackoffMs
         /\ inv[q].waits = 0

C11_Witness ==
  /\ RetriedTwice(1) /\ FirstTry(2)
  /\ inv[1].response = inv[2].response
  /\ inv[1].sinkFailures = 0 /\ inv[2].sinkFailures = 0
  /\ Outcome(1) = "Accepted" /\ Outcome(2) = "Accepted"
  /\ inv[1].waits = 2

C11_WitnessRejected ==
  /\ RetriedTwice(2) /\ FirstTry(1)
  /\ inv[1].response = inv[2].response
  /\ Outcome(1) = "Rejected" /\ Outcome(2) = "Rejected"

(***************************************************************************)
(* C17.  Concurrent invocations on the shared service do not interfere:    *)
(* under every interleaving, the result of a completed invocation and the  *)
(* telemetry records it emitted are what its own input, its own attempts'  *)
(* outcomes, its own response and its own telemetry writes give when the   *)
(* invocation runs alone.                                                  *)
(***************************************************************************)
\* the error of telemetry that could not store a record
SinkError == IF supabaseKey THEN InsertError ELSE InitError

\* the error the invocation's own attempts and response end in
OwnError(errs, delivered, response) ==
  IF ~delivered THEN errs[Len(errs)]
  ELSE IF ~parseResponse(response).ok THEN parseResponse(response).error
  ELSE goalSchemaParse(parseResponse(response).value).error

OwnGoal(response) == goalSchemaParse(parseResponse(response).value).value

AloneValid(delivered, response) ==
  /\ delivered
  /\ parseResponse(response).ok
  /\ SatisfiesConstraints(parseResponse(response).value)

AloneResult(userInput, errs, delivered, response, sinkFailures) ==
  LET raise(e) == [kind |-> "throw", value |-> Undef, error |-> e] IN
  IF BlankInput(userInput)
    THEN IF sinkFailures = 0 THEN ReturnOf(Sentinel) ELSE raise(SinkError)
  ELSE IF ~AloneValid(delivered, response)
    THEN IF sinkFailures = 0 THEN raise(OwnError(errs, delivered, response))
         ELSE raise(SinkError)
  ELSE IF OwnGoal(response).confidence_score.n < GuardrailThreshold
    THEN ReturnOf(Rejection)
  ELSE IF sinkFailures = 0 THEN ReturnOf(OwnGoal(response))
  ELSE raise(SinkError)

AloneEmitted(userInput, errs, delivered, response, sinkFailures) ==
  IF BlankInput(userInput) THEN <<EmptyEntry>>
  ELSE IF ~AloneValid(delivered, response)
    THEN <<FailureEntry(userInput, OwnError(errs, delivered, response))>>
  ELSE IF OwnGoal(response).confidence_score.n < GuardrailThreshold THEN <<>>
  ELSE IF sinkFailures = 0 THEN <<SuccessEntry(userInput, OwnGoal(response))>>
  ELSE <<SuccessEntry(userInput, OwnGoal(response)),
         FailureEntry(userInput, SinkError)>>

C17_ConcurrentInvocationsIndependent ==
  \A p \in Procs :
    Done(p) =>
      /\ inv[p].result =
           AloneResult(inv[p].userInput, inv[p].errs, Delivered(p),
                       inv[p].response, inv[p].sinkFailures)
      /\ inv[p].emitted =
           AloneEmitted(inv[p].userInput, inv[p].errs, Delivered(p),
                        inv[p].response, inv[p].sinkFailures)

\* two invocations of different inputs and outcomes, the one that retried
\* storing its row after the other's
C17_Witness ==
  /\ Done(1) /\ Done(2)
  /\ inv[1].userInput # inv[2].userInput
  /\ inv[1].attempts = 3 /\ inv[1].waits = 2
  /\ ContractViolation(1) /\ Outcome(1) = "Failed"
  /\ BlankInput(inv[2].userInput) /\ inv[2].result = ReturnOf(Sentinel)
  /\ Len(ai_call_logs) >= 2
  /\ ai_call_logs[Len(ai_call_logs)] = inv[1].emitted[1]
  /\ ai_call_logs[Len(ai_call_logs) - 1] = EmptyEntry

(***************************************************************************)
(* C21.  When every network attempt, backoff timer and telemetry write     *)
(* eventually completes, every invocation of refineGoal that has started   *)
(* eventually completes, having returned or raised; its retry loop has     *)
(* then either returned a response or raised after its attempts.           *)
(***************************************************************************)
Started(p) == inv[p].pc \notin {"idle", "done"}

Settled(p) ==
  /\ Done(p)
  /\ inv[p].result.kind \in {"return", "throw"}
  /\ \/ BlankInput(inv[p].userInput) /\ inv[p].attempts = 0
     \/ inv[p].gateway = "returned" /\ inv[p].attempts \in 1..3
     \/ inv[p].gateway = "threw" /\ inv[p].attempts = 3

C21_EveryInvocationTerminates ==
  \A p \in Procs : Started(p) ~> Settled(p)

C21_Witness ==
  /\ Settled(1)
  /\ inv[1].gateway = "threw"
  /\ inv[1].waits = 2
  /\ inv[1].result.kind = "throw"

(***************************************************************************)
(* C22.  The stages of an invocation with a non-blank input run in the     *)
(* order model call, parse and schema validation, guardrail, telemetry     *)
(* emission, return: a validated object exists only after the gateway      *)
(* returned a response that passes the schema, the guardrail has decided   *)
(* only on a validated object, and a result has been returned only after   *)
(* a telemetry record was emitted.                                         *)
(***************************************************************************)
ValidationAfterGateway(p) ==
  inv[p].validated # Undef => Delivered(p) /\ SchemaValid(p)

GuardrailAfterValidation(p) ==
  (Done(p) /\ Outcome(p) \in {"Accepted", "Rejected"}) => inv[p].validated # Undef

ReturnAfterEmission(p) ==
  (Done(p) /\ inv[p].result.kind = "return") => Len(inv[p].emitted) >= 1

C22_ValidationAndGuardrailInOrder ==
  \A p \in Procs :
    ~BlankInput(inv[p].userInput)
      => ValidationAfterGateway(p) /\ GuardrailAfterValidation(p)

C22_StagesInOrder ==
  \A p \in Procs :
    ~BlankInput(inv[p].userInput)
      => /\ ValidationAfterGateway(p)
         /\ GuardrailAfterValidation(p)
         /\ ReturnAfterEmission(p)

(***************************************************************************)
(* C23.  The credential is read once and reused.  Once _apiKey holds a     *)
(* non-empty value it never changes, and every later attempt of any        *)
(* invocation posts with it whatever GOOGLE_API_KEY has become; while the  *)
(* cache is empty an attempt made with the variable unset posts nothing,   *)
(* fails for the missing key and caches nothing, and an attempt made with  *)
(* the variable set posts with that value and caches it.                   *)
(***************************************************************************)
AttemptMade(p) ==
  inv'[p].attempts > (IF inv'[p].calls = inv[p].calls THEN inv[p].attempts ELSE 0)

PostedWith(p, key) ==
  /\ inv'[p].pc = "fetch"
  /\ inv'[p].keys # <<>>
  /\ inv'[p].keys[Len(inv'[p].keys)] = key

CredentialStep ==
  /\ _apiKey # "" => _apiKey' = _apiKey
  /\ (\A p \in Procs : ~AttemptMade(p)) => _apiKey' = _apiKey
  /\ \A p \in Procs :
       AttemptMade(p) =>
         IF _apiKey # "" THEN PostedWith(p, _apiKey)
         ELSE IF env # "" THEN PostedWith(p, env) /\ _apiKey' = env
         ELSE /\ _apiKey' = ""
              /\ inv'[p].pc # "fetch"
              /\ inv'[p].errs # <<>>
              /\ inv'[p].errs[Len(inv'[p].errs)] = MissingKeyError

C23_WitnessSetLater ==
  /\ inv[1].errs # <<>> /\ inv[1].errs[1] = MissingKeyError
  /\ inv[1].keys = <<"k1">>
  /\ _apiKey = "k1"

(***************************************************************************)
(* C24.  POST /api/goals/refine with a goal that is missing, empty or not  *)
(* a string is answered 400 with success = FALSE in the step that receives *)
(* it, and that step neither calls the service nor makes an attempt nor    *)
(* emits or stores a telemetry record; a whitespace-only string is handed  *)
(* to GeminiService.refineGoal as its input.                               *)
(***************************************************************************)
Requested(p) == http[p].state # "none"

UnusableGoal(goal) == goal.t # "string" \/ goal.s = <<>>

Received(p) ==
  /\ http[p].state # "pending"
  /\ http'[p] # http[p]
  /\ http'[p].state # "none"

C24_WitnessWhitespace ==
  /\ Sent(1)
  /\ http[1].goal = Str(<<" ", "\n">>)
  /\ inv[1].userInput = http[1].goal
  /\ inv[1].attempts = 0
  /\ inv[1].emitted = <<EmptyEntry>>

(***************************************************************************)
(* C25.  Once every POST /api/eval/run-tests request that was made has     *)
(* been answered, console.log and process.exit are the functions they were *)
(* before any request started, also when two requests overlapped.          *)
(***************************************************************************)
C25_GlobalsRestored ==
  ((\A p \in Procs : req[p].pc \in {"idle", "sent"})
     /\ (\E p \in Procs : req[p].pc = "sent"))
    => /\ console_log = Original
       /\ process_exit = Original

\* a single request, or requests that do not overlap, restore both
C25_RestoredWithoutOverlap ==
  ((\A p \in Procs : req[p].pc \in {"idle", "sent"})
     /\ (\A p \in Procs : req[p].pc = "sent" =>
           /\ req[p].originalConsoleLog = Original
           /\ req[p].originalExit = Original))
    => /\ console_log = Original
       /\ process_exit = Original

(***************************************************************************)
(* C30.  The summary each POST /api/eval/run-tests answers with counts     *)
(* the test cases of its own call of runAllTests only: total = passed +    *)
(* failed = the length of tests = the 10 cases of the suite.               *)
(***************************************************************************)
C30_SummaryCountsOwnRun ==
  \A p \in Procs :
    req[p].pc = "sent" =>
      /\ req[p].results.total = req[p].results.passed + req[p].results.failed
      /\ req[p].results.total = req[p].results.tests
      /\ req[p].results.total = 10

\* what does hold: the three counts agree and cover at least the own run
C30_SummaryCountsAgree ==
  \A p \in Procs :
    req[p].pc = "sent" =>
      /\ req[p].results.total = req[p].results.passed + req[p].results.failed
      /\ req[p].results.total = req[p].results.tests
      /\ req[p].results.total >= 10

(***************************************************************************)
(* C26.  Every goal record POST /api/goals hands to                        *)
(* StorageService.saveGoal has key_results an array of 3 to 5 items and    *)
(* confidence_score a number in 1..10; a request with one of userInput,    *)
(* refined_goal, key_results, confidence_score missing is answered 400     *)
(* and nothing of it is handed on or stored.                               *)
(***************************************************************************)
ExpectedShape(row) ==
  /\ row.refined_goal.t = "string"
  /\ row.key_results.t = "array"
  /\ Len(row.key_results.a) \in 3..5
  /\ row.confidence_score.t = "number"
  /\ row.confidence_score.n \in 1..10

MissingField(body) ==
  \E f \in {"userInput", "refined_goal", "key_results", "confidence_score"} :
    body[f] = Undef

MissingFieldAnswered400(p) ==
  (save[p].pc # "idle" /\ MissingField(save[p].body))
    => /\ save[p].pc = "sent"
       /\ save[p].status = 400
       /\ save[p].handed = <<>>
       /\ \A i \in 1..Len(goals) : goals[i].original_input # Undef
                                    /\ goals[i].key_results # Undef

C26_MissingFieldRefused == \A p \in Procs : MissingFieldAnswered400(p)

C26_StoredGoalsWellShaped ==
  \A p \in Procs :
    /\ \A i \in 1..Len(save[p].handed) : ExpectedShape(save[p].handed[i])
    /\ MissingFieldAnswered400(p)

(***************************************************************************)
(* C27.  End to end: when the model answered the refine request with a     *)
(* schema-valid response of confidence_score below 4, the RefineGoal       *)
(* component that received the answer shows the Low Confidence Input card, *)
(* never the AI Refinement Complete card with its Save Goal button.        *)
(***************************************************************************)
ClientReceived(p) == http[p].state = "received"

C27_LowConfidenceCardShown ==
  \A p \in Procs :
    (ClientReceived(p) /\ SchemaValid(p) /\ Score(p) < 4)
      => /\ card(currentRefinement[p]) = "Low Confidence Input"
         /\ card(currentRefinement[p]) # "AI Refinement Complete"

\* what does hold: a goal of score 4 or more is shown as complete
C27_AcceptedGoalShownComplete ==
  \A p \in Procs :
    (ClientReceived(p) /\ Outcome(p) = "Accepted")
      => card(currentRefinement[p]) = "AI Refinement Complete"

(***************************************************************************)
(* C28.  In every telemetry record the pipeline emits or stores, success   *)
(* is TRUE exactly when output is a non-null goal object and error_message *)
(* is null, and success is FALSE exactly when output is null,              *)
(* error_message is a non-null text and both token counts are 0.           *)
(***************************************************************************)
ConsistentRecord(e) ==
  /\ e.success = TRUE
       <=> /\ e.output # Null
           /\ e.output.t = "object"
           /\ IsGoalObject(e.output)
           /\ e.error_message = Null
  /\ e.success = FALSE
       <=> /\ e.output = Null
           /\ e.error_message.t = "string"
           /\ e.error_message.s # <<>>
           /\ e.prompt_tokens = 0
           /\ e.completion_tokens = 0

C28_TelemetryRecordConsistent ==
  /\ \A p \in Procs : \A i \in 1..Len(inv[p].emitted) : ConsistentRecord(inv[p].emitted[i])
  /\ \A i \in 1..Len(ai_call_logs) : ConsistentRecord(ai_call_logs[i])

\* an invocation that emitted a success record and then a failure record,
\* the latter stored
C28_Witness ==
  /\ Done(1)
  /\ Len(inv[1].emitted) = 2
  /\ inv[1].emitted[1].success = TRUE
  /\ inv[1].emitted[1].prompt_tokens > 0
  /\ inv[1].emitted[2].success = FALSE
  /\ ai_call_logs = <<inv[1].emitted[2]>>

C28_WitnessEmpty ==
  /\ Done(1)
  /\ inv[1].emitted = <<EmptyEntry>>
  /\ ai_call_logs = <<EmptyEntry>>

(***************************************************************************)
(* C29.  A record with success = FALSE is emitted or stored for an         *)
(* invocation only if its gateway call, its response parse or its schema   *)
(* validation failed: an invocation whose model call succeeded and whose   *)
(* output passed validation and the guardrail has no such record; and an   *)
(* invocation stores at most one row in the sink.                          *)
(***************************************************************************)
PipelineFailed(p) == inv[p].gateway = "threw" \/ ContractViolation(p)

HasFailureRecord(p) ==
  \E i \in 1..Len(inv[p].emitted) : inv[p].emitted[i].success = FALSE

C29_FailureRecordOnlyOnPipelineFailure ==
  \A p \in Procs :
    /\ HasFailureRecord(p) => PipelineFailed(p)
    /\ (SchemaValid(p) /\ Score(p) >= 4) => ~HasFailureRecord(p)
    /\ inv[p].written <= 1

\* what does hold: a failure record follows a failure of the pipeline or of
\* the telemetry write of the success record
C29_FailureRecordOnlyOnSomeFailure ==
  \A p \in Procs :
    /\ HasFailureRecord(p) => PipelineFailed(p) \/ inv[p].sinkFailures >= 1
    /\ inv[p].written <= 1

====
